---- MODULE Spec2Model ----
(***************************************************************************)
(* A model of tf_quant_finance/experimental/dates/date_tensor.py: the      *)
(* DateTensor type, its period arithmetic and its factory functions.       *)
(*                                                                         *)
(* An int32 tensor is a sequence of integers (a scalar is a sequence of    *)
(* one); a DateTensor is the sequence of its elements, each a record of    *)
(* the four parallel fields ordinal, year, month, day.  Every operation    *)
(* yields a result record: ok with the elements of the returned            *)
(* DateTensor, or not ok with the kind of the exception raised.            *)
(*                                                                         *)
(* Spec is eager execution (an assertion raises at the call); GraphSpec is *)
(* deferred execution of the graphs the two validating factories record.   *)
(***************************************************************************)
EXTENDS Integers, Sequences, FiniteSets, TLC

VARIABLES
  dt,        \* elements of the DateTensor returned by the last call
  outcome,   \* "none" | "returned" | "raised"
  err,       \* kind of the exception raised by the last call, "" if none
  call,      \* the last call: operation and arguments
  prev,      \* operand (self) of the last period operation
  nops,      \* period operations applied since the last factory call
  graph,     \* GraphSpec: the recorded graph, node -> set of nodes it waits for
  gcall,     \* GraphSpec: factory and arguments that recorded the graph
  gdone,     \* GraphSpec: nodes that have produced their value
  gfailed    \* GraphSpec: nodes whose evaluation raised

vars == <<dt, outcome, err, call, prev, nops, graph, gcall, gdone, gfailed>>
eagerVars == <<dt, outcome, err, call, prev, nops>>
graphVars == <<graph, gcall, gdone, gfailed>>

\* ---------------------------------------------------------------- bounds

\* Longest chain of period operations applied to one factory result.
MaxOps == 2
\* Longest plain integer sequence handed to convert_to_date_tensor.
MaxSeqLen == 4

\* ------------------------------------------------------------- constants

_DAYS_IN_MONTHS ==
  <<0,
    31, 28, 31, 30, 31, 30, 31, 31, 30, 31, 30, 31,
    31, 29, 31, 30, 31, 30, 31, 31, 30, 31, 30, 31>>

_ORDINAL_OF_1_1_1970 == 719163

\* constants.Month.JANUARY.value and constants.Month.DECEMBER.value
JANUARY == 1
DECEMBER == 12

\* constants.PeriodType
PeriodType == {"DAY", "WEEK", "MONTH", "YEAR"}

\* ------------------------------------------------------- tensor helpers

\* Sequences over S of length lo..hi.
SeqsOf(S, lo, hi) == UNION {[1..n -> S] : n \in lo..hi}

Min(a, b) == IF a <= b THEN a ELSE b

\* The device an op is placed on decides what an out-of-range tf.gather
\* does: it raises on a CPU and yields 0 on a GPU.
Devices == {"CPU", "GPU"}

\* tf.gather(params, index) for one index into a Python tuple (0-based).
GatherInRange(params, index) == index >= 0 /\ index < Len(params)

Gather(params, index) ==
  IF GatherInRange(params, index) THEN params[index + 1] ELSE 0

\* tf.debugging.assert_positive / assert_greater_equal / assert_less_equal,
\* elementwise over the whole tensor.
assert_positive(x) == \A i \in 1..Len(x) : x[i] > 0
assert_greater_equal(x, y) == \A i \in 1..Len(x) : x[i] >= y
assert_less_equal(x, y) == \A i \in 1..Len(x) : x[i] <= y
assert_less_equal_tensor(x, y) == \A i \in 1..Len(x) : x[i] <= y[i]

\* --------------------------------------------------- results of a call

Returned(elems) == [ok |-> TRUE, err |-> "", elems |-> elems]
Raised(kind) == [ok |-> FALSE, err |-> kind, elems |-> <<>>]

\* ------------------------------------------------------------ date_utils

\* date_utils.is_leap_year: the Gregorian rule.
is_leap_year(year) ==
  (year % 4 = 0) /\ ((year % 100 # 0) \/ (year % 400 = 0))

\* Days in the years before `year`.
DaysBeforeYear(year) ==
  LET y == year - 1
  IN 365 * y + (y \div 4) - (y \div 100) + (y \div 400)

\* Days of a non-leap year before the first of each month.
CumulativeDays == <<0, 31, 59, 90, 120, 151, 181, 212, 243, 273, 304, 334>>

\* Days of `year` before the first of `month`; months before January and
\* past December continue the count arithmetically.
DaysBeforeMonth(year, month) ==
  IF month < 1 THEN (month - 1) * 31
  ELSE IF month > 12 THEN DaysBeforeYear(year + 1) - DaysBeforeYear(year)
                          + (month - 13) * 31
  ELSE CumulativeDays[month]
       + (IF month > 2 /\ is_leap_year(year) THEN 1 ELSE 0)

\* date_utils.year_month_day_to_ordinal for one element; 1 Jan 0001 is 1.
year_month_day_to_ordinal(year, month, day) ==
  DaysBeforeYear(year) + DaysBeforeMonth(year, month) + day

\* Month of the `n`-th day (0-based) of `year`, searching from `month`.
RECURSIVE MonthOfDay(_, _, _)
MonthOfDay(year, month, n) ==
  IF month >= 12 \/ n < DaysBeforeMonth(year, month + 1)
  THEN month ELSE MonthOfDay(year, month + 1, n)

\* date_utils.ordinal_to_year_month_day for one element: <<year, month, day>>.
ordinal_to_year_month_day(ordinal) ==
  LET n0 == ordinal - 1
      n400 == n0 \div 146097
      r400 == n0 % 146097
      n100 == r400 \div 36524
      r100 == r400 % 36524
      n4 == r100 \div 1461
      r4 == r100 % 1461
      n1 == r4 \div 365
      r1 == r4 % 365
      year == n400 * 400 + n100 * 100 + n4 * 4 + n1 + 1
  IN IF n1 = 4 \/ n100 = 4
     THEN <<year - 1, 12, 31>>
     ELSE LET month == MonthOfDay(year, 1, r1)
          IN <<year, month, r1 - DaysBeforeMonth(year, month) + 1>>

\* --------------------------------------------------------------- periods

\* periods.PeriodTensor(quantity, period_type): one type tag, one quantity
\* broadcast over the dates.
PeriodTensor(quantity, period_type) ==
  [quantity |-> quantity, period_type |-> period_type]

\* ------------------------------------------------------------ DateTensor

\* DateTensor.__init__ from four parallel tensors.
DateTensor(ordinals, years, months, days) ==
  [i \in 1..Len(ordinals) |->
     [ordinal |-> ordinals[i], year |-> years[i],
      month |-> months[i], day |-> days[i]]]

_ordinals(self) == [i \in 1..Len(self) |-> self[i].ordinal]
_years(self) == [i \in 1..Len(self) |-> self[i].year]
_months(self) == [i \in 1..Len(self) |-> self[i].month]
_days(self) == [i \in 1..Len(self) |-> self[i].day]

\* -------------------------------------------------------------- factories

\* The assertions of from_year_month_day, in the order eager execution
\* raises them; max_days is gathered only once the month is known in range.
validate_ymd_NoMonthLength(year, month, day) ==
  /\ assert_positive(year)
  /\ assert_greater_equal(month, JANUARY)
  /\ assert_less_equal(month, DECEMBER)
  /\ assert_positive(day)

validate_ymd(year, month, day) ==
  /\ assert_positive(year)
  /\ assert_greater_equal(month, JANUARY)
  /\ assert_less_equal(month, DECEMBER)
  /\ assert_positive(day)
  /\ LET max_days ==
           [i \in 1..Len(year) |->
              Gather(_DAYS_IN_MONTHS,
                     month[i] + 12 * (IF is_leap_year(year[i]) THEN 1 ELSE 0))]
     IN assert_less_equal_tensor(day, max_days)

from_year_month_day(year, month, day, validate) ==
  IF validate /\ ~validate_ymd(year, month, day)
  THEN Raised("InvalidArgumentError")
  ELSE LET ords == [i \in 1..Len(year) |->
                      year_month_day_to_ordinal(year[i], month[i], day[i])]
       IN Returned(DateTensor(ords, year, month, day))

from_ordinals(ordinals, validate) ==
  IF validate /\ ~assert_positive(ordinals)
  THEN Raised("InvalidArgumentError")
  ELSE LET ymd == [i \in 1..Len(ordinals) |->
                     ordinal_to_year_month_day(ordinals[i])]
       IN Returned(DateTensor(ordinals,
                              [i \in 1..Len(ordinals) |-> ymd[i][1]],
                              [i \in 1..Len(ordinals) |-> ymd[i][2]],
                              [i \in 1..Len(ordinals) |-> ymd[i][3]]))

\* from_tuples: unzip the (year, month, day) tuples.
from_tuples(year_month_day_tuples, validate) ==
  LET n == Len(year_month_day_tuples)
  IN from_year_month_day([i \in 1..n |-> year_month_day_tuples[i][1]],
                         [i \in 1..n |-> year_month_day_tuples[i][2]],
                         [i \in 1..n |-> year_month_day_tuples[i][3]],
                         validate)

\* from_datetimes: the objects' year, month and day attributes, unvalidated.
from_datetimes(datetimes) ==
  LET n == Len(datetimes)
  IN from_year_month_day([i \in 1..n |-> datetimes[i].year],
                         [i \in 1..n |-> datetimes[i].month],
                         [i \in 1..n |-> datetimes[i].day],
                         FALSE)

\* from_np_datetimes: np_datetimes holds days since 1 Jan 1970.
from_np_datetimes_NoEpoch(np_datetimes) ==
  from_ordinals(np_datetimes, FALSE)

from_np_datetimes(np_datetimes) ==
  from_ordinals([i \in 1..Len(np_datetimes) |->
                   np_datetimes[i] + _ORDINAL_OF_1_1_1970],
                FALSE)

\* ------------------------------------------------------ period arithmetic

\* adjust_day for one element: the day capped at the month's length.
adjust_day_NonLeapOnly(year, month, day) ==
  Min(day, Gather(_DAYS_IN_MONTHS, month))

adjust_day_NoClamp(year, month, day) == day

adjust_day(year, month, day) ==
  Min(day, Gather(_DAYS_IN_MONTHS,
                  month + 12 * (IF is_leap_year(year) THEN 1 ELSE 0)))

\* Whether adjust_day's gather stays inside the table for every element.
adjust_day_in_range(years, months) ==
  \A i \in 1..Len(years) :
    GatherInRange(_DAYS_IN_MONTHS,
                  months[i] + 12 * (IF is_leap_year(years[i]) THEN 1 ELSE 0))

\* Division and remainder that round toward zero (C and Java), where
\* Python's // and % on tensors floor.
TruncDiv(a, b) == IF a >= 0 THEN a \div b ELSE -((-a) \div b)
TruncMod(a, b) == a - b * TruncDiv(a, b)

\* The MONTH case for one element: <<y, m>> of lines 259-261.
month_rollover_Truncating(year, month, quantity) ==
  LET m == month - 1 + quantity
  IN <<year + TruncDiv(m, 12), TruncMod(m, 12) + 1>>

month_rollover(year, month, quantity) ==
  LET m == month - 1 + quantity
  IN <<year + (m \div 12), (m % 12) + 1>>

\* The DAY case: shifted ordinals through from_ordinals (validate defaults
\* to True).
add_days_Unvalidated(self, quantity) ==
  from_ordinals([i \in 1..Len(self) |-> self[i].ordinal + quantity], FALSE)

add_days(self, quantity) ==
  from_ordinals([i \in 1..Len(self) |-> self[i].ordinal + quantity], TRUE)

\* The WEEK case's rewritten period.
week_as_days_Times5(period_tensor) ==
  PeriodTensor(period_tensor.quantity * 5, "DAY")

week_as_days(period_tensor) ==
  PeriodTensor(period_tensor.quantity * 7, "DAY")

\* Clamp the days of (y, m) and build the result unvalidated; an
\* out-of-range gather raises on a CPU.
clamped(self, y, m, dev) ==
  IF ~adjust_day_in_range(y, m) /\ dev = "CPU"
  THEN Raised("InvalidArgumentError")
  ELSE from_year_month_day(
         y, m,
         [i \in 1..Len(self) |-> adjust_day(y[i], m[i], self[i].day)],
         FALSE)

add_months(self, quantity, dev) ==
  LET ym == [i \in 1..Len(self) |->
               month_rollover(self[i].year, self[i].month, quantity)]
  IN clamped(self,
             [i \in 1..Len(self) |-> ym[i][1]],
             [i \in 1..Len(self) |-> ym[i][2]],
             dev)

add_years(self, quantity, dev) ==
  clamped(self,
          [i \in 1..Len(self) |-> self[i].year + quantity],
          _months(self),
          dev)

\* DateTensor.__add__
RECURSIVE __add__(_, _, _)
__add__(self, period_tensor, dev) ==
  LET period_type == period_tensor.period_type
  IN IF period_type = "DAY" THEN add_days(self, period_tensor.quantity)
     ELSE IF period_type = "WEEK"
       THEN __add__(self, week_as_days(period_tensor), dev)
     ELSE IF period_type = "MONTH"
       THEN add_months(self, period_tensor.quantity, dev)
     ELSE IF period_type = "YEAR"
       THEN add_years(self, period_tensor.quantity, dev)
     ELSE Raised("ValueError")

\* DateTensor.__sub__
__sub__(self, period_tensor, dev) ==
  __add__(self,
          PeriodTensor(-period_tensor.quantity, period_tensor.period_type),
          dev)

\* ------------------------------------------------- convert_to_date_tensor

\* What a caller may hand to convert_to_date_tensor.  kind is the Python
\* type: "DateTensor", "ndarray" (dtype says what the numbers are),
\* "Tensor" (a tf int32 tensor), "Sequence" (elems says what its elements
\* are: "date" objects with year/month/day, "tuple" triples, plain "int"),
\* "int" (a Python scalar), "object" (anything else; coerce is what
\* tf.convert_to_tensor raises on it).
Input(kind, dtype, elems, ints, triples, dates, coerce) ==
  [kind |-> kind, dtype |-> dtype, elems |-> elems, ints |-> ints,
   triples |-> triples, dates |-> dates, coerce |-> coerce]

\* ndarray.astype("datetime64[D]"): an hour count floors to days; integers
\* are taken as day counts.
astype_datetime64_D(date_inputs) ==
  IF date_inputs.dtype = "datetime64[h]"
  THEN [i \in 1..Len(date_inputs.ints) |-> date_inputs.ints[i] \div 24]
  ELSE date_inputs.ints

\* tf.convert_to_tensor(date_inputs, dtype=tf.int32) on what reaches the
\* last-ditch conversion.
convert_to_tensor(date_inputs) ==
  IF date_inputs.kind \in {"Sequence", "int"}
  THEN [ok |-> TRUE, err |-> "", ints |-> date_inputs.ints]
  ELSE [ok |-> FALSE, err |-> date_inputs.coerce, ints |-> <<>>]

\* str + other: a str operand concatenates, anything else is a TypeError.
str_add(otherType) == IF otherType = "str" THEN "" ELSE "TypeError"

\* Lines 383-388: the last-ditch conversion and its except clause.
last_ditch(date_inputs) ==
  LET as_ordinals == convert_to_tensor(date_inputs)
  IN IF as_ordinals.ok THEN from_ordinals(as_ordinals.ints, TRUE)
     ELSE IF as_ordinals.err = "ValueError"
       THEN (IF str_add("ValueError") = "TypeError"
             THEN Raised("TypeError") ELSE Raised("ValueError"))
     ELSE Raised(as_ordinals.err)

AsDatetimes(triples) ==
  [i \in 1..Len(triples) |->
     [year |-> triples[i][1], month |-> triples[i][2], day |-> triples[i][3]]]

\* Whether the Sequence is empty (`not date_inputs`) and its length.
SeqLength(date_inputs) ==
  IF date_inputs.elems = "int" THEN Len(date_inputs.ints)
  ELSE Len(date_inputs.triples)

\* Lines 370-380 and what falls through them, for a Sequence.
convert_sequence_AtLeast3(date_inputs) ==
  IF SeqLength(date_inputs) = 0
    THEN from_ordinals(<<>>, TRUE)
  ELSE IF date_inputs.elems = "date"
    THEN from_datetimes(AsDatetimes(date_inputs.triples))
  ELSE IF date_inputs.elems = "tuple"
    THEN from_tuples(date_inputs.triples, TRUE)
  ELSE IF SeqLength(date_inputs) >= 3
    THEN from_year_month_day(<<date_inputs.ints[1]>>, <<date_inputs.ints[2]>>,
                             <<date_inputs.ints[3]>>, TRUE)
  ELSE last_ditch(date_inputs)

convert_sequence(date_inputs) ==
  IF SeqLength(date_inputs) = 0
    THEN from_ordinals(<<>>, TRUE)
  ELSE IF date_inputs.elems = "date"
    THEN from_datetimes(AsDatetimes(date_inputs.triples))
  ELSE IF date_inputs.elems = "tuple"
    THEN from_tuples(date_inputs.triples, TRUE)
  ELSE IF SeqLength(date_inputs) = 3
    THEN from_year_month_day(<<date_inputs.ints[1]>>, <<date_inputs.ints[2]>>,
                             <<date_inputs.ints[3]>>, TRUE)
  ELSE last_ditch(date_inputs)

convert_to_date_tensor(date_inputs) ==
  IF date_inputs.kind = "DateTensor"
    THEN Returned(date_inputs.dates)
  ELSE IF date_inputs.kind = "ndarray"
    THEN from_np_datetimes(astype_datetime64_D(date_inputs))
  ELSE IF date_inputs.kind = "Tensor"
    THEN from_ordinals(date_inputs.ints, TRUE)
  ELSE IF date_inputs.kind = "Sequence"
    THEN convert_sequence(date_inputs)
  ELSE last_ditch(date_inputs)

\* ------------------------------------------------------------- the inputs

Years == {0, 1, 2019, 2020}
Months == {0, 1, 2, 3, 12, 13}
Days == {0, 1, 29, 31}
Triples == {<<y, m, d>> : y \in Years, m \in Months, d \in Days}

\* Batches of (year, month, day): none, one, or two of which either may be
\* the invalid one.
PairHeads == {<<2020, 2, 29>>, <<2019, 2, 29>>}
PairTails == {<<2020, 3, 31>>, <<1, 1, 1>>, <<0, 1, 1>>, <<1, 13, 1>>,
              <<1, 1, 0>>, <<2019, 2, 29>>}
YMDBatches ==
  {<<>>} \cup {<<t>> : t \in Triples}
         \cup {<<h, t>> : h \in PairHeads, t \in PairTails}

\* 737484 is 29 Feb 2020.
OrdinalSamples == {-1, 0, 1, 737484}
OrdinalBatches == SeqsOf(OrdinalSamples, 0, 2)

\* Day counts from 1 Jan 1970: -719163 is 31 Dec 0000, 18321 is 29 Feb 2020.
NpDaySamples == {-719163, -1, 0, 18321}
NpDayBatches == SeqsOf(NpDaySamples, 0, 2)
\* Hour counts from 1 Jan 1970 00:00.
NpHourSamples == {-1, 0, 23, 24, 439727}

IntSamples == {0, 2, 29}

ConvertInputs ==
       {Input("ndarray", "datetime64[D]", "", b, <<>>, <<>>, "") :
          b \in NpDayBatches}
  \cup {Input("ndarray", "datetime64[h]", "", b, <<>>, <<>>, "") :
          b \in SeqsOf(NpHourSamples, 1, 1)}
  \cup {Input("ndarray", "int64", "", b, <<>>, <<>>, "") :
          b \in SeqsOf(NpDaySamples, 1, 1)}
  \cup {Input("Tensor", "int32", "", b, <<>>, <<>>, "") :
          b \in OrdinalBatches}
  \cup {Input("Sequence", "", "date", <<>>, b, <<>>, "") :
          b \in YMDBatches \ {<<>>}}
  \cup {Input("Sequence", "", "tuple", <<>>, b, <<>>, "") :
          b \in YMDBatches \ {<<>>}}
  \cup {Input("Sequence", "", "int", b, <<>>, <<>>, "") :
          b \in SeqsOf(IntSamples, 0, MaxSeqLen)}
  \cup {Input("int", "", "", <<v>>, <<>>, <<>>, "") : v \in OrdinalSamples}
  \cup {Input("object", "", "", <<>>, <<>>, <<>>, e) :
          e \in {"ValueError", "TypeError"}}

\* The PeriodTensors added; "QUARTER" stands for a tag outside PeriodType.
AddPeriods ==
  {PeriodTensor(q, t) : q \in {-13, -1, 0, 1, 12}, t \in {"MONTH"}}
  \cup {PeriodTensor(q, t) :
          q \in {-1, 0, 1}, t \in {"DAY", "WEEK", "YEAR"}}
  \cup {PeriodTensor(1, "QUARTER")}

\* The PeriodTensors subtracted.
SubPeriods == {PeriodTensor(1, t) : t \in PeriodType}

\* ------------------------------------------------------- eager execution

NoInput == Input("", "", "", <<>>, <<>>, <<>>, "")
NoPeriod == PeriodTensor(0, "")

Call(op, validate, ints, triples, input, period) ==
  [op |-> op, validate |-> validate, ints |-> ints, triples |-> triples,
   input |-> input, period |-> period]

GraphIdle ==
  /\ graph = [deps |-> <<>>, asserts |-> {}, fields |-> <<>>]
  /\ gcall = Call("", FALSE, <<>>, <<>>, NoInput, NoPeriod)
  /\ gdone = {}
  /\ gfailed = {}

Init ==
  /\ dt = <<>>
  /\ outcome = "none"
  /\ err = ""
  /\ call = Call("", FALSE, <<>>, <<>>, NoInput, NoPeriod)
  /\ prev = <<>>
  /\ nops = 0
  /\ GraphIdle

\* The state after a call that ended in `result`.
Finish(result, c, self, n) ==
  /\ dt' = result.elems
  /\ outcome' = (IF result.ok THEN "returned" ELSE "raised")
  /\ err' = result.err
  /\ call' = c
  /\ prev' = self
  /\ nops' = n
  /\ UNCHANGED graphVars

Unzip(b, k) == [i \in 1..Len(b) |-> b[i][k]]

\* The factories are module-level pure functions: what they return does not
\* depend on earlier calls, so a run is one factory call and then the
\* operations applied to what it returned.
Fresh == outcome = "none"

CallFromYearMonthDay ==
  /\ Fresh
  /\ \E b \in YMDBatches, validate \in BOOLEAN :
    Finish(from_year_month_day(Unzip(b, 1), Unzip(b, 2), Unzip(b, 3), validate),
           Call("from_year_month_day", validate, <<>>, b, NoInput, NoPeriod),
           <<>>, 0)

CallFromTuples ==
  /\ Fresh
  /\ \E b \in YMDBatches, validate \in BOOLEAN :
    Finish(from_tuples(b, validate),
           Call("from_tuples", validate, <<>>, b, NoInput, NoPeriod),
           <<>>, 0)

CallFromDatetimes ==
  /\ Fresh
  /\ \E b \in YMDBatches :
    Finish(from_datetimes(AsDatetimes(b)),
           Call("from_datetimes", FALSE, <<>>, b, NoInput, NoPeriod),
           <<>>, 0)

CallFromOrdinals ==
  /\ Fresh
  /\ \E b \in OrdinalBatches, validate \in BOOLEAN :
    Finish(from_ordinals(b, validate),
           Call("from_ordinals", validate, b, <<>>, NoInput, NoPeriod),
           <<>>, 0)

CallFromNpDatetimes ==
  /\ Fresh
  /\ \E b \in SeqsOf(NpDaySamples, 0, 2) :
    Finish(from_np_datetimes(b),
           Call("from_np_datetimes", FALSE, b, <<>>, NoInput, NoPeriod),
           <<>>, 0)

CallConvert ==
  /\ Fresh
  /\ \E input \in ConvertInputs :
    Finish(convert_to_date_tensor(input),
           Call("convert_to_date_tensor", TRUE, <<>>, <<>>, input, NoPeriod),
           <<>>, 0)

\* convert_to_date_tensor on the DateTensor at hand.
CallConvertDateTensor ==
  /\ outcome = "returned"
  /\ LET input == Input("DateTensor", "", "", <<>>, <<>>, dt, "")
     IN Finish(convert_to_date_tensor(input),
               Call("convert_to_date_tensor", TRUE, <<>>, <<>>, input, NoPeriod),
               <<>>, nops)

Add ==
  /\ outcome = "returned"
  /\ nops < MaxOps
  /\ \E p \in AddPeriods :
     \E result \in {__add__(dt, p, dev) : dev \in Devices} :
       Finish(result,
              Call("__add__", FALSE, <<>>, <<>>, NoInput, p),
              dt, nops + 1)

Sub ==
  /\ outcome = "returned"
  /\ nops < MaxOps
  /\ \E p \in SubPeriods :
     \E result \in {__sub__(dt, p, dev) : dev \in Devices} :
       Finish(result,
              Call("__sub__", FALSE, <<>>, <<>>, NoInput, p),
              dt, nops + 1)

Next ==
  \/ CallFromYearMonthDay
  \/ CallFromTuples
  \/ CallFromDatetimes
  \/ CallFromOrdinals
  \/ CallFromNpDatetimes
  \/ CallConvert
  \/ CallConvertDateTensor
  \/ Add
  \/ Sub

Spec == Init /\ [][Next]_vars

\* ---------------------------------------------------- deferred execution

\* A recorded graph: for each node the nodes it waits for (its data inputs
\* and its control dependencies), the assertion nodes, and the node behind
\* each field of the returned DateTensor.
Graph(deps, asserts, fields) ==
  [deps |-> deps, asserts |-> asserts, fields |-> fields]

\* from_year_month_day in graph mode.  year, month, day are the converted
\* arguments; with validate the five assertions are recorded, the three
\* identities and the ordinal under control_dependencies(control_deps).
from_year_month_day_graph_NoIdentity(validate) ==
  LET control_deps ==
        IF validate
        THEN {"assert_positive_year", "assert_month_ge", "assert_month_le",
              "assert_positive_day", "assert_day_le"}
        ELSE {}
      validation ==
        IF validate
        THEN [n \in control_deps \cup {"is_leap", "max_days"} |->
                CASE n = "assert_positive_year" -> {"year"}
                  [] n = "assert_month_ge" -> {"month"}
                  [] n = "assert_month_le" -> {"month"}
                  [] n = "assert_positive_day" -> {"day"}
                  [] n = "is_leap" -> {"year"}
                  [] n = "max_days" -> {"month", "is_leap"}
                  [] n = "assert_day_le" -> {"day", "max_days"}]
        ELSE <<>>
  IN Graph([n \in {"year", "month", "day"} |-> {}] @@ validation
             @@ ("ordinal" :> ({"year", "month", "day"} \cup control_deps)),
           control_deps,
           [ordinal |-> "ordinal", year |-> "year", month |-> "month",
            day |-> "day"])

from_year_month_day_graph(validate) ==
  LET control_deps ==
        IF validate
        THEN {"assert_positive_year", "assert_month_ge", "assert_month_le",
              "assert_positive_day", "assert_day_le"}
        ELSE {}
      validation ==
        IF validate
        THEN [n \in control_deps \cup {"is_leap", "max_days"} |->
                CASE n = "assert_positive_year" -> {"year"}
                  [] n = "assert_month_ge" -> {"month"}
                  [] n = "assert_month_le" -> {"month"}
                  [] n = "assert_positive_day" -> {"day"}
                  [] n = "is_leap" -> {"year"}
                  [] n = "max_days" -> {"month", "is_leap"}
                  [] n = "assert_day_le" -> {"day", "max_days"}]
        ELSE <<>>
      identities ==
        IF validate
        THEN ("year_id" :> ({"year"} \cup control_deps))
             @@ ("month_id" :> ({"month"} \cup control_deps))
             @@ ("day_id" :> ({"day"} \cup control_deps))
        ELSE <<>>
      y == IF validate THEN "year_id" ELSE "year"
      m == IF validate THEN "month_id" ELSE "month"
      d == IF validate THEN "day_id" ELSE "day"
  IN Graph([n \in {"year", "month", "day"} |-> {}] @@ validation @@ identities
             @@ ("ordinal" :> ({y, m, d} \cup control_deps)),
           control_deps,
           [ordinal |-> "ordinal", year |-> y, month |-> m, day |-> d])

\* from_ordinals in graph mode.
from_ordinals_graph(validate) ==
  LET control_deps == IF validate THEN {"assert_positive_ordinals"} ELSE {}
      validation ==
        IF validate
        THEN ("assert_positive_ordinals" :> {"ordinals"})
             @@ ("ordinals_id" :> ({"ordinals"} \cup control_deps))
        ELSE <<>>
      o == IF validate THEN "ordinals_id" ELSE "ordinals"
  IN Graph(("ordinals" :> {}) @@ validation
             @@ [n \in {"years", "months", "days"} |-> {o} \cup control_deps],
           control_deps,
           [ordinal |-> o, year |-> "years", month |-> "months",
            day |-> "days"])

\* Whether node n of the recorded graph produces a value on the recorded
\* arguments (an assertion that does not hold raises; an out-of-range
\* gather raises on a CPU).
Produces(n, c, dev) ==
  LET y == <<c.triples[1][1]>>
      m == <<c.triples[1][2]>>
      d == <<c.triples[1][3]>>
      index == m[1] + 12 * (IF is_leap_year(y[1]) THEN 1 ELSE 0)
  IN CASE n = "assert_positive_year" -> assert_positive(y)
       [] n = "assert_month_ge" -> assert_greater_equal(m, JANUARY)
       [] n = "assert_month_le" -> assert_less_equal(m, DECEMBER)
       [] n = "assert_positive_day" -> assert_positive(d)
       [] n = "max_days" ->
            GatherInRange(_DAYS_IN_MONTHS, index) \/ dev = "GPU"
       [] n = "assert_day_le" ->
            assert_less_equal(d, Gather(_DAYS_IN_MONTHS, index))
       [] n = "assert_positive_ordinals" -> assert_positive(c.ints)
       [] OTHER -> TRUE

GraphTriples ==
  {<<2020, 2, 29>>, <<2019, 2, 29>>, <<0, 1, 1>>, <<2020, 13, 1>>,
   <<1, 0, 1>>, <<1, 1, 0>>}

RecordFromYearMonthDay ==
  /\ gcall.op = ""
  /\ \E t \in GraphTriples, validate \in BOOLEAN :
       /\ graph' = from_year_month_day_graph(validate)
       /\ gcall' = Call("from_year_month_day", validate, <<>>, <<t>>,
                        NoInput, NoPeriod)
  /\ UNCHANGED <<gdone, gfailed>>
  /\ UNCHANGED eagerVars

RecordFromOrdinals ==
  /\ gcall.op = ""
  /\ \E o \in OrdinalSamples, validate \in BOOLEAN :
       /\ graph' = from_ordinals_graph(validate)
       /\ gcall' = Call("from_ordinals", validate, <<o>>, <<>>,
                        NoInput, NoPeriod)
  /\ UNCHANGED <<gdone, gfailed>>
  /\ UNCHANGED eagerVars

\* The executor runs any node whose inputs and control dependencies have
\* all produced their values.
Evaluate ==
  /\ gcall.op # ""
  /\ \E n \in DOMAIN graph.deps, dev \in Devices :
       /\ n \notin gdone \cup gfailed
       /\ graph.deps[n] \subseteq gdone
       /\ IF Produces(n, gcall, dev)
          THEN gdone' = gdone \cup {n} /\ UNCHANGED gfailed
          ELSE gfailed' = gfailed \cup {n} /\ UNCHANGED gdone
  /\ UNCHANGED <<graph, gcall>>
  /\ UNCHANGED eagerVars

GraphNext ==
  \/ RecordFromYearMonthDay
  \/ RecordFromOrdinals
  \/ Evaluate

GraphSpec == Init /\ [][GraphNext]_vars

\* ==================================================================
\* Properties
\* ==================================================================

IsFactoryCall ==
  call.op \in {"from_year_month_day", "from_tuples", "from_datetimes",
               "from_ordinals", "from_np_datetimes", "convert_to_date_tensor"}

IsPeriodCall == call.op \in {"__add__", "__sub__"}

\* The quantity a period operation adds: __sub__ adds the negation.
AddedQuantity ==
  IF call.op = "__sub__" THEN -call.period.quantity ELSE call.period.quantity

\* The calendar's length of month `month` of `year`: thirty days has
\* September, April, June and November; February 28, or 29 in a leap year.
DaysInMonth(year, month) ==
  IF month = 2 THEN (IF is_leap_year(year) THEN 29 ELSE 28)
  ELSE IF month \in {4, 6, 9, 11} THEN 30 ELSE 31

\* (year, month, day) is a date of the proleptic Gregorian calendar.
ValidDate(y, m, d) ==
  y >= 1 /\ m \in 1..12 /\ d >= 1 /\ d <= DaysInMonth(y, m)

\* The four fields of one element denote one calendar date.
Consistent(e) ==
  /\ ValidDate(e.year, e.month, e.day)
  /\ e.ordinal >= 1
  /\ year_month_day_to_ordinal(e.year, e.month, e.day) = e.ordinal
  /\ ordinal_to_year_month_day(e.ordinal) = <<e.year, e.month, e.day>>

AllConsistent(elems) == \A i \in 1..Len(elems) : Consistent(elems[i])

\* D is the day count an ndarray element v stands for: v itself, or for
\* an hour count the day D with 24 D <= v < 24 (D + 1).
IsDayCount(D, v, dtype) ==
  IF dtype = "datetime64[h]" THEN 24 * D <= v /\ v < 24 * (D + 1)
  ELSE D = v

\* The arguments of the factory call are valid dates (positive ordinals).
InputsValid ==
  LET input == call.input
      triplesValid(b) == \A i \in 1..Len(b) : ValidDate(b[i][1], b[i][2], b[i][3])
      positive(b) == \A i \in 1..Len(b) : b[i] >= 1
  IN CASE call.op \in {"from_year_month_day", "from_tuples", "from_datetimes"} ->
            triplesValid(call.triples)
       [] call.op = "from_ordinals" -> positive(call.ints)
       [] call.op = "from_np_datetimes" ->
            \A i \in 1..Len(call.ints) : call.ints[i] + 719163 >= 1
       [] call.op = "convert_to_date_tensor" ->
            CASE input.kind = "DateTensor" -> AllConsistent(input.dates)
              [] input.kind = "ndarray" ->
                   \A i \in 1..Len(input.ints) :
                     IF input.dtype = "datetime64[h]"
                     THEN input.ints[i] >= 24 * (1 - 719163)
                     ELSE input.ints[i] + 719163 >= 1
              [] input.kind \in {"Tensor", "int"} -> positive(input.ints)
              [] input.kind = "Sequence" /\ input.elems \in {"date", "tuple"} ->
                   triplesValid(input.triples)
              [] input.kind = "Sequence" /\ input.elems = "int" ->
                   IF Len(input.ints) = 3
                   THEN ValidDate(input.ints[1], input.ints[2], input.ints[3])
                   ELSE positive(input.ints)
              [] OTHER -> FALSE
       [] OTHER -> FALSE

\* The factory call validates its arguments.
ValidatingCall ==
  LET input == call.input
  IN CASE call.op \in {"from_year_month_day", "from_tuples", "from_ordinals"} ->
            call.validate
       [] call.op = "convert_to_date_tensor" ->
            \/ input.kind \in {"Tensor", "int"}
            \/ input.kind = "Sequence" /\ input.elems \in {"tuple", "int"}
            \/ input.kind = "Sequence" /\ Len(input.ints) = 0 /\ Len(input.triples) = 0
       [] OTHER -> FALSE

\* C1 as stated: every DateTensor any factory or any + / - returns has
\* ordinal, year, month and day denoting the same calendar date.
C1_EveryReturnedConsistent ==
  outcome = "returned" => AllConsistent(dt)

\* C1 amended: a DateTensor returned by a factory that validated its
\* arguments, or that was given valid dates (positive ordinals), is
\* consistent; so is one returned by + / - applied to a consistent
\* DateTensor when the resulting years are all >= 1.
C1_ValidatedOrValidConsistent ==
  /\ (outcome = "returned" /\ IsFactoryCall /\ (ValidatingCall \/ InputsValid))
       => AllConsistent(dt)
  /\ (outcome = "returned" /\ IsPeriodCall /\ AllConsistent(prev)
        /\ \A i \in 1..Len(dt) : dt[i].year >= 1)
       => AllConsistent(dt)

\* Reached: 31 Jan 2020 + 1 month, a second operation of a chain, gives the
\* consistent 29 Feb 2020 (ordinal 737484).
C1_Witness ==
  /\ outcome = "returned" /\ call.op = "__add__" /\ nops = 2
  /\ call.period = PeriodTensor(1, "MONTH")
  /\ AllConsistent(prev) /\ Len(prev) = 1
  /\ prev[1].month = 1 /\ prev[1].day = 31
  /\ dt = <<[ordinal |-> 737484, year |-> 2020, month |-> 2, day |-> 29]>>

\* (ty, tm) is the year and month a MONTH or YEAR operation aims at from
\* (y, m): the month count moved by the quantity, or the year moved by it.
IsTarget(ty, tm, y, m) ==
  IF call.period.period_type = "YEAR"
  THEN ty = y + AddedQuantity /\ tm = m
  ELSE tm \in 1..12 /\ 12 * ty + tm - 1 = 12 * y + m - 1 + AddedQuantity

OneDate(y, m, d) ==
  <<[ordinal |-> year_month_day_to_ordinal(y, m, d),
     year |-> y, month |-> m, day |-> d]>>

\* C2: for a valid date d and a MONTH or YEAR period p, d + p and d - p
\* fall in the target month of the target year, on day
\* min(d.day, length of that month); 31 Mar 2020 + 1 month = 30 Apr 2020,
\* 29 Feb 2020 + 1 year = 28 Feb 2021, 31 Mar 2020 - 1 month = 29 Feb 2020.
C2_DayClamping ==
  /\ (IsPeriodCall /\ call.period.period_type \in {"MONTH", "YEAR"}
        /\ AllConsistent(prev))
       => /\ outcome = "returned"
          /\ Len(dt) = Len(prev)
          /\ \A i \in 1..Len(dt) :
               /\ IsTarget(dt[i].year, dt[i].month, prev[i].year, prev[i].month)
               /\ dt[i].day
                    = Min(prev[i].day, DaysInMonth(dt[i].year, dt[i].month))
               /\ (dt[i].year >= 1 =>
                     ordinal_to_year_month_day(dt[i].ordinal)
                       = <<dt[i].year, dt[i].month, dt[i].day>>)
  /\ (prev = OneDate(2020, 3, 31) /\ call.op = "__add__"
        /\ call.period = PeriodTensor(1, "MONTH"))
       => dt = OneDate(2020, 4, 30)
  /\ (prev = OneDate(2020, 2, 29) /\ call.op = "__add__"
        /\ call.period = PeriodTensor(1, "YEAR"))
       => dt = OneDate(2021, 2, 28)
  /\ (prev = OneDate(2020, 3, 31) /\ call.op = "__sub__"
        /\ call.period = PeriodTensor(1, "MONTH"))
       => dt = OneDate(2020, 2, 29)

\* Reached: 31 Mar 2020 - 1 month returned 29 Feb 2020.
C2_Witness ==
  /\ outcome = "returned" /\ call.op = "__sub__"
  /\ call.period = PeriodTensor(1, "MONTH")
  /\ prev = OneDate(2020, 3, 31)
  /\ dt = <<[ordinal |-> 737484, year |-> 2020, month |-> 2, day |-> 29]>>

\* C3: for a date with month in 1..12 and a MONTH quantity q, the result's
\* month m' is in 1..12 and 12 y' + (m' - 1) = 12 y + (m - 1) + q, that is
\* y' = y + floor((m - 1 + q) / 12) and m' = ((m - 1 + q) mod 12) + 1.
C3_MonthRollover ==
  (IsPeriodCall /\ call.period.period_type = "MONTH"
     /\ \A i \in 1..Len(prev) : prev[i].month \in 1..12)
    => /\ outcome = "returned"
       /\ Len(dt) = Len(prev)
       /\ \A i \in 1..Len(dt) :
            /\ dt[i].month \in 1..12
            /\ 12 * dt[i].year + dt[i].month - 1
                 = 12 * prev[i].year + prev[i].month - 1 + AddedQuantity
            /\ (prev[i].month = 1 /\ AddedQuantity = -1)
                 => (dt[i].month = 12 /\ dt[i].year = prev[i].year - 1)

\* Reached: a January date plus -13 months is December two years earlier.
C3_Witness ==
  /\ outcome = "returned" /\ call.op = "__add__"
  /\ call.period = PeriodTensor(-13, "MONTH")
  /\ Len(prev) = 1 /\ prev[1].month = 1 /\ prev[1].year = 2020
  /\ dt[1].month = 12 /\ dt[1].year = 2018

\* Some element of the (year, month, day) batch is not a valid date.
SomeTripleInvalid(b) ==
  \E i \in 1..Len(b) :
    \/ b[i][1] <= 0
    \/ b[i][2] < 1 \/ b[i][2] > 12
    \/ b[i][3] <= 0
    \/ b[i][3] > DaysInMonth(b[i][1], b[i][2])

\* C4: with validate enabled from_year_month_day fails exactly when some
\* element has year <= 0, month outside 1..12, day <= 0 or day past the
\* month's length ((2019, 2, 29) fails, (2020, 2, 29) succeeds) and
\* from_ordinals fails exactly when some ordinal is <= 0; with validate
\* disabled both return whatever the values.
C4_FactoryValidation ==
  /\ (call.op = "from_year_month_day" /\ call.validate)
       => /\ (outcome = "raised") <=> SomeTripleInvalid(call.triples)
          /\ outcome = "raised" => err = "InvalidArgumentError"
          /\ call.triples = <<<<2019, 2, 29>>>> => outcome = "raised"
          /\ call.triples = <<<<2020, 2, 29>>>> => outcome = "returned"
  /\ (call.op = "from_ordinals" /\ call.validate)
       => /\ (outcome = "raised") <=> (\E i \in 1..Len(call.ints) : call.ints[i] <= 0)
          /\ outcome = "raised" => err = "InvalidArgumentError"
  /\ (call.op \in {"from_year_month_day", "from_ordinals"} /\ ~call.validate)
       => /\ outcome = "returned"
          /\ Len(dt) = Len(call.triples) + Len(call.ints)
          /\ call.op = "from_year_month_day" =>
               \A i \in 1..Len(dt) :
                 <<dt[i].year, dt[i].month, dt[i].day>> = call.triples[i]
          /\ call.op = "from_ordinals" =>
               \A i \in 1..Len(dt) : dt[i].ordinal = call.ints[i]

\* Reached: a batch whose first date is valid and whose second is 29 Feb
\* 2019 was rejected by the validating from_year_month_day.
C4_Witness ==
  /\ call.op = "from_year_month_day" /\ call.validate
  /\ call.triples = <<<<2020, 2, 29>>, <<2019, 2, 29>>>>
  /\ outcome = "raised" /\ err = "InvalidArgumentError"

\* The result the state holds, as a result record.
Result ==
  [ok |-> outcome = "returned", err |-> err, elems |-> dt]

\* C5: d + weeks(n) is d + days(7 n): the same ordinal, year, month and
\* day, or the same failure.
C5_WeekIsSevenDays ==
  (IsPeriodCall /\ call.period.period_type = "WEEK")
    => \A dev \in Devices :
         Result = __add__(prev, PeriodTensor(7 * AddedQuantity, "DAY"), dev)

\* Reached: 29 Feb 2020 plus one week returned 7 Mar 2020.
C5_Witness ==
  /\ outcome = "returned" /\ call.op = "__add__"
  /\ call.period = PeriodTensor(1, "WEEK")
  /\ prev = OneDate(2020, 2, 29)
  /\ dt = <<[ordinal |-> 737491, year |-> 2020, month |-> 3, day |-> 7]>>

\* The input reaches the last-ditch conversion and tf.convert_to_tensor
\* cannot coerce it.
CoercionFailed ==
  call.op = "convert_to_date_tensor" /\ call.input.kind = "object"

\* C6: when the input has no recognized shape and its coercion to an int32
\* tensor fails, convert_to_date_tensor raises ValueError and nothing else.
C6_FallbackRaisesValueError ==
  CoercionFailed => (outcome = "raised" /\ err = "ValueError")

\* C7 as stated: a date-typed ndarray becomes ordinals day + 719163,
\* unvalidated; every raw numeric array or scalar (an integer ndarray, a
\* Tensor, a plain int) is taken as ordinals and validated.
C7_RawNumericAreOrdinals ==
  LET input == call.input
  IN /\ (call.op = "convert_to_date_tensor" /\ input.kind = "ndarray"
           /\ input.dtype # "int64")
          => /\ outcome = "returned"
             /\ \A i \in 1..Len(dt) :
                  IsDayCount(dt[i].ordinal - 719163, input.ints[i], input.dtype)
     /\ (call.op = "convert_to_date_tensor"
           /\ (input.kind \in {"Tensor", "int"}
                 \/ (input.kind = "ndarray" /\ input.dtype = "int64")))
          => Result = from_ordinals(input.ints, TRUE)

\* C7 amended: an ndarray of any dtype, date-typed or integer, is cast to
\* day counts and becomes ordinals day + 719163 without validation; a
\* Tensor or a plain int is taken as ordinals and validated.
C7_NdarrayShiftedTensorOrdinals ==
  LET input == call.input
  IN /\ (call.op = "convert_to_date_tensor" /\ input.kind = "ndarray")
          => /\ outcome = "returned"
             /\ Len(dt) = Len(input.ints)
             /\ \A i \in 1..Len(dt) :
                  /\ IsDayCount(dt[i].ordinal - 719163, input.ints[i], input.dtype)
                  /\ <<dt[i].year, dt[i].month, dt[i].day>>
                       = ordinal_to_year_month_day(dt[i].ordinal)
             /\ input.ints = <<0>> =>
                  dt = <<[ordinal |-> 719163, year |-> 1970, month |-> 1, day |-> 1]>>
     /\ (call.op = "convert_to_date_tensor" /\ input.kind \in {"Tensor", "int"})
          => IF \E i \in 1..Len(input.ints) : input.ints[i] <= 0
             THEN outcome = "raised" /\ err = "InvalidArgumentError"
             ELSE /\ outcome = "returned"
                  /\ Len(dt) = Len(input.ints)
                  /\ \A i \in 1..Len(dt) :
                       /\ dt[i].ordinal = input.ints[i]
                       /\ <<dt[i].year, dt[i].month, dt[i].day>>
                            = ordinal_to_year_month_day(dt[i].ordinal)

\* Reached: an integer ndarray holding -719163 was returned as ordinal 0,
\* unvalidated.
C7_Witness ==
  /\ call.op = "convert_to_date_tensor"
  /\ call.input.kind = "ndarray" /\ call.input.dtype = "int64"
  /\ call.input.ints = <<-719163>>
  /\ outcome = "returned" /\ dt[1].ordinal = 0

\* Days per unit of a DAY or WEEK period.
DaysPerUnit == IF call.period.period_type = "WEEK" THEN 7 ELSE 1

\* C9: d + p for a DAY (WEEK) period of quantity q returns the ordinal
\* d.ordinal + q (+ 7 q), strictly positive, with year, month and day
\* derived from it, or raises when that ordinal would be <= 0.
C9_DayAdditionValidated ==
  (IsPeriodCall /\ call.period.period_type \in {"DAY", "WEEK"})
    => LET shifted == [i \in 1..Len(prev) |->
                         prev[i].ordinal + DaysPerUnit * AddedQuantity]
       IN IF \E i \in 1..Len(prev) : shifted[i] <= 0
          THEN outcome = "raised" /\ err = "InvalidArgumentError"
          ELSE /\ outcome = "returned"
               /\ Len(dt) = Len(prev)
               /\ \A i \in 1..Len(dt) :
                    /\ dt[i].ordinal = shifted[i]
                    /\ dt[i].ordinal > 0
                    /\ <<dt[i].year, dt[i].month, dt[i].day>>
                         = ordinal_to_year_month_day(shifted[i])
                    /\ year_month_day_to_ordinal(dt[i].year, dt[i].month, dt[i].day)
                         = shifted[i]

\* Reached: 1 Jan 0001 minus one day raised.
C9_Witness ==
  /\ call.op = "__sub__" /\ call.period = PeriodTensor(1, "DAY")
  /\ prev = <<[ordinal |-> 1, year |-> 1, month |-> 1, day |-> 1]>>
  /\ outcome = "raised" /\ err = "InvalidArgumentError"

\* C10: a sequence of plain integers of length 3 is one validated
\* (year, month, day) date, of any other length a batch of validated
\* ordinals, one date per element; the empty sequence is a DateTensor of
\* batch size zero.
C10_IntSequenceByLength ==
  LET input == call.input
      n == Len(input.ints)
  IN (call.op = "convert_to_date_tensor" /\ input.kind = "Sequence"
        /\ input.elems = "int")
       => IF n = 3
          THEN IF ValidDate(input.ints[1], input.ints[2], input.ints[3])
               THEN /\ outcome = "returned"
                    /\ dt = OneDate(input.ints[1], input.ints[2], input.ints[3])
               ELSE outcome = "raised" /\ err = "InvalidArgumentError"
          ELSE IF \E i \in 1..n : input.ints[i] <= 0
               THEN outcome = "raised" /\ err = "InvalidArgumentError"
               ELSE /\ outcome = "returned"
                    /\ Len(dt) = n
                    /\ \A i \in 1..n :
                         /\ dt[i].ordinal = input.ints[i]
                         /\ <<dt[i].year, dt[i].month, dt[i].day>>
                              = ordinal_to_year_month_day(input.ints[i])

\* Reached: the sequence (29, 2, 2) was returned as the single date
\* 2 Feb 0029, not as three ordinals.
C10_Witness ==
  /\ call.op = "convert_to_date_tensor" /\ call.input.kind = "Sequence"
  /\ call.input.ints = <<29, 2, 2>>
  /\ outcome = "returned" /\ Len(dt) = 1
  /\ dt[1].year = 29 /\ dt[1].month = 2 /\ dt[1].day = 2

\* The nodes behind the fields of the DateTensor the recorded call returns.
FieldNodes ==
  {graph.fields.ordinal, graph.fields.year, graph.fields.month, graph.fields.day}

\* Some recorded assertion does not hold of the recorded arguments.
SomeAssertionViolated ==
  \E a \in graph.asserts : \A dev \in Devices : ~Produces(a, gcall, dev)

\* C8: in deferred mode, whatever the order of evaluation, a validating
\* from_year_month_day or from_ordinals produces none of the returned
\* DateTensor's ordinal, year, month, day before every assertion has been
\* evaluated and has held; when an assertion is violated none is produced.
C8_ValidationBeforeUse ==
  (gcall.op # "" /\ gcall.validate)
    => /\ graph.asserts # {}
       /\ (FieldNodes \cap gdone # {}) => graph.asserts \subseteq gdone
       /\ SomeAssertionViolated => FieldNodes \cap gdone = {}

\* Reached: validating from_year_month_day(2019, 2, 29) with four assertions
\* passed, the month-length assertion raised, and no field produced.
C8_Witness ==
  /\ gcall.op = "from_year_month_day" /\ gcall.validate
  /\ gcall.triples = <<<<2019, 2, 29>>>>
  /\ "assert_day_le" \in gfailed
  /\ {"assert_positive_year", "assert_month_ge", "assert_month_le",
      "assert_positive_day"} \subseteq gdone
  /\ FieldNodes \cap gdone = {}

====
